---- MODULE Spec2Model ----
(***************************************************************************)
(* A model of the code cells and update rules of                           *)
(* Ch11_Training_Deep_Neural_Nets.ipynb: gradient clipping, reuse of       *)
(* pretrained layers, freezing of lower layers, the batch-normalization    *)
(* and dropout graphs, and the Adam update as the notebook writes it.      *)
(* Each cell is a program fragment; the names it leaves free (loss,        *)
(* learning_rate, the layers already in the graph, the checkpoint) are     *)
(* inputs chosen in the initial state.                                     *)
(***************************************************************************)
EXTENDS Integers, Sequences, FiniteSets, TLC

VARIABLES
    cell,            \* which notebook fragment this session executes
    pc,              \* the line of the fragment about to run
    layers,          \* dense layers in the default graph (indices of LayerNames)
    disconnected,    \* layers whose variables the loss does not depend on
    nan_propagates,  \* whether the build's minimum/maximum kernels propagate NaN
    learning_rate,   \* the free name learning_rate
    ckpt,            \* ./my_model_final.ckpt: op name -> saved value
    threshold,
    optimizer,
    grads_and_vars,
    capped_gvs,
    training_op,
    reuse_vars,
    reuse_vars_dict,
    restore_saver,
    train_vars,
    value,           \* the session's variable values: variable -> float
    computed,        \* the gradient values the last run computed
    applied,         \* the gradient values the last run handed to the update
    restored,        \* op names read from the checkpoint by restore
    runs,            \* number of sess.run(training_op) so far
    saved,           \* ./my_new_model_final.ckpt
    error,           \* the exception that ended the fragment, "" if none
    graph,           \* the operations of the default graph, in creation order
    py,              \* Python names bound to tensors: identifier -> node name
    fetched,         \* what the last run of logits evaluated to
    beta1,           \* Adam's hyperparameters, as fractions
    beta2,
    m,               \* Adam's m and s, as fractions
    s,
    T,               \* the iteration number, starting at 1
    gradient,        \* the gradient of J at theta in this iteration
    gradients,       \* the gradients of the iterations so far
    theta            \* the steps subtracted from the initial theta

trainVars == <<cell, pc, layers, disconnected, nan_propagates, learning_rate,
               ckpt, threshold, optimizer, grads_and_vars, capped_gvs,
               training_op, reuse_vars, reuse_vars_dict, restore_saver,
               train_vars, value, computed, applied, restored, runs, saved,
               error>>

trainVarsButPc == <<cell, layers, disconnected, nan_propagates, learning_rate,
                    ckpt, threshold, optimizer, grads_and_vars, capped_gvs,
                    training_op, reuse_vars, reuse_vars_dict, restore_saver,
                    train_vars, value, computed, applied, restored, runs, saved,
                    error>>

graphVars == <<graph, py, fetched>>

adamVars == <<beta1, beta2, m, s, T, gradient, gradients, theta>>

vars == <<trainVars, graphVars, adamVars>>

----------------------------------------------------------------------------
(* Bounds of the model. *)

MaxLayers == 2
MaxRuns == 1
GradRange == 2
Width == 2
MaxIterations == 3

----------------------------------------------------------------------------
(* float32 values: finite numbers (in units of 1.0), the infinities, NaN. *)

Fin(n) == [k |-> "fin", v |-> n]
Inf(sgn) == [k |-> "inf", v |-> sgn]
NaN == [k |-> "nan", v |-> 0]

IsNaN(x) == x.k = "nan"

FNeg(x) ==
    CASE x.k = "fin" -> Fin(-x.v)
      [] x.k = "inf" -> Inf(-x.v)
      [] OTHER -> NaN

\* IEEE comparison: false whenever an operand is NaN.
FLess(a, b) ==
    CASE IsNaN(a) \/ IsNaN(b) -> FALSE
      [] a.k = "fin" /\ b.k = "fin" -> a.v < b.v
      [] a.k = "inf" /\ b.k = "fin" -> a.v < 0
      [] a.k = "fin" /\ b.k = "inf" -> b.v > 0
      [] OTHER -> a.v < b.v

FSub(a, b) ==
    CASE IsNaN(a) \/ IsNaN(b) -> NaN
      [] a.k = "fin" /\ b.k = "fin" -> Fin(a.v - b.v)
      [] a.k = "inf" /\ b.k = "fin" -> a
      [] a.k = "fin" /\ b.k = "inf" -> FNeg(b)
      [] OTHER -> IF a.v = b.v THEN NaN ELSE a

\* lr is a positive finite number.
FScale(lr, g) ==
    CASE g.k = "fin" -> Fin(lr * g.v)
      [] OTHER -> g

Abs(n) == IF n < 0 THEN -n ELSE n

----------------------------------------------------------------------------
(* Exact fractions, kept in lowest terms with a positive denominator. *)

Rat(n, d) == [num |-> n, den |-> d]

RECURSIVE GCD(_, _)
GCD(a, b) == IF b = 0 THEN a ELSE GCD(b, a % b)

Norm(n, d) == LET g == GCD(Abs(n), d) IN Rat(n \div g, d \div g)

One == Rat(1, 1)
Zero == Rat(0, 1)

RAdd(a, b) == Norm(a.num * b.den + b.num * a.den, a.den * b.den)
RSub(a, b) == Norm(a.num * b.den - b.num * a.den, a.den * b.den)
RMul(a, b) == Norm(a.num * b.num, a.den * b.den)
\* b is positive.
RDiv(a, b) == Norm(a.num * b.den, a.den * b.num)

RECURSIVE RPow(_, _)
RPow(a, k) == IF k = 0 THEN One ELSE RMul(a, RPow(a, k - 1))

GradValues == {Fin(n) : n \in (-GradRange)..GradRange} \cup {Inf(1), Inf(-1), NaN}

----------------------------------------------------------------------------
(* Names.  A name is a sequence of characters, so that a scope pattern is   *)
(* matched against it character by character, as re.match does.            *)

HiddenChars == <<"h", "i", "d", "d", "e", "n">>
OutputsChars == <<"o", "u", "t", "p", "u", "t", "s">>
KernelChars == <<"k", "e", "r", "n", "e", "l">>
BiasChars == <<"b", "i", "a", "s">>

\* The dense layers a graph may hold, in creation order.
LayerNames ==
    << HiddenChars \o <<"1">>, HiddenChars \o <<"2">>, HiddenChars \o <<"3">>,
       HiddenChars \o <<"4">>,
       HiddenChars \o <<"1", "0">>, HiddenChars \o <<"3", "0">>,
       OutputsChars >>

LayerIds == 1..Len(LayerNames)

LayerId(name) == CHOOSE i \in LayerIds : LayerNames[i] = name

Var(i, leaf) == [layer |-> i, leaf |-> leaf]

\* var.op.name, e.g. hidden1/kernel
OpName(v) ==
    LayerNames[v.layer] \o <<"/">> \o
        (IF v.leaf = "kernel" THEN KernelChars ELSE BiasChars)

\* var.name, e.g. hidden1/kernel:0
VarName(v) == OpName(v) \o <<":", "0">>

\* A pattern is a set of alternatives, an alternative a sequence of
\* character classes.
Lit(chars) == [i \in 1..Len(chars) |-> {chars[i]}]

ScopeHidden123 == { Lit(HiddenChars) \o << {"1", "2", "3"} >> }

ScopeHidden34Outputs ==
    { Lit(HiddenChars) \o << {"3", "4"} >>, Lit(OutputsChars) }

\* re.match(pattern, string): the pattern matches at the start of the
\* string, which may go on after it.
ReMatch(pattern, string) ==
    \E alt \in pattern :
        /\ Len(alt) <= Len(string)
        /\ \A i \in 1..Len(alt) : string[i] \in alt[i]

----------------------------------------------------------------------------
(* The graph's variables and collections. *)

RECURSIVE VarsFrom(_, _)
\* tf.layers.dense creates kernel then bias; layers in creation order.
VarsFrom(i, L) ==
    IF i > Len(LayerNames) THEN <<>>
    ELSE (IF i \in L THEN <<Var(i, "kernel"), Var(i, "bias")>> ELSE <<>>)
         \o VarsFrom(i + 1, L)

\* GLOBAL_VARIABLES and TRAINABLE_VARIABLES both hold every dense variable.
Collection(key, L) == VarsFrom(1, L)

Range(seq) == {seq[i] : i \in 1..Len(seq)}

RECURSIVE FilterByScope(_, _)
FilterByScope(items, scope) ==
    IF items = <<>> THEN <<>>
    ELSE (IF ReMatch(scope, VarName(Head(items))) THEN <<Head(items)>> ELSE <<>>)
         \o FilterByScope(Tail(items), scope)

\* tf.get_collection(key, scope): the items whose name re.match-es scope.
GetCollection(key, scope, L) == FilterByScope(Collection(key, L), scope)

----------------------------------------------------------------------------
(* Tensors of the training graph, kept symbolic until a run evaluates them. *)

NoneGrad == [op |-> "None"]
GradientOf(v) == [op |-> "gradients", wrt |-> v]
ClipOp(t, lo, hi) ==
    [op |-> "clip_by_value", t |-> t, clip_value_min |-> lo, clip_value_max |-> hi]

\* optimizer.compute_gradients(loss, var_list): one (gradient, variable) pair
\* per variable, the gradient None when loss does not depend on the variable.
ComputeGradients(var_list, disc) ==
    [i \in 1..Len(var_list) |->
        [grad |-> IF var_list[i].layer \in disc THEN NoneGrad
                  ELSE GradientOf(var_list[i]),
         var |-> var_list[i]]]

\* tf.minimum / tf.maximum on one component.
TfMinimum(a, b, propagate) ==
    CASE IsNaN(a) -> IF propagate THEN a ELSE b
      [] IsNaN(b) -> IF propagate THEN b ELSE a
      [] OTHER -> IF FLess(b, a) THEN b ELSE a

TfMaximum(a, b, propagate) ==
    CASE IsNaN(a) -> IF propagate THEN a ELSE b
      [] IsNaN(b) -> IF propagate THEN b ELSE a
      [] OTHER -> IF FLess(a, b) THEN b ELSE a

\* A clip that only caps from above.
ClipUpperOnly(x, lo, hi, propagate) == TfMinimum(x, hi, propagate)

\* tf.clip_by_value(t, lo, hi) = maximum(minimum(t, hi), lo)
ClipByValue(x, lo, hi, propagate) ==
    TfMaximum(TfMinimum(x, hi, propagate), lo, propagate)

\* A comprehension that pairs each clipped gradient with the wrong variable.
CappedGvsMispaired(gvs, thr) ==
    [i \in 1..Len(gvs) |->
        [grad |-> ClipOp(gvs[i].grad, FNeg(thr), thr),
         var |-> gvs[Len(gvs) + 1 - i].var]]

\* [(tf.clip_by_value(grad, -threshold, threshold), var) for grad, var in gvs]
CappedGvs(gvs, thr) ==
    [i \in 1..Len(gvs) |->
        [grad |-> ClipOp(gvs[i].grad, FNeg(thr), thr), var |-> gvs[i].var]]

RECURSIVE EvalTensor(_, _, _)
EvalTensor(t, feed, propagate) ==
    CASE t.op = "gradients" -> feed[t.wrt]
      [] t.op = "clip_by_value" ->
            ClipByValue(EvalTensor(t.t, feed, propagate),
                        t.clip_value_min, t.clip_value_max, propagate)

\* optimizer.apply_gradients(gvs): pairs whose gradient is None are dropped.
ApplyGradients(gvs) == SelectSeq(gvs, LAMBDA p : p.grad # NoneGrad)

\* One run of a training op under GradientDescentOptimizer:
\* var <- var - learning_rate * gradient, for each pair of the op.
Handed(op, feed, propagate) ==
    [v \in {op[i].var : i \in 1..Len(op)} |->
        LET i == CHOOSE j \in 1..Len(op) : op[j].var = v
        IN EvalTensor(op[i].grad, feed, propagate)]

GradientDescentStep(vals, handed, lr) ==
    [v \in DOMAIN vals |->
        IF v \in DOMAIN handed THEN FSub(vals[v], FScale(lr, handed[v]))
        ELSE vals[v]]

\* The gradients a run computes: one value for the kernels, one for the biases.
Feeds(L) ==
    {[v \in Range(VarsFrom(1, L)) |-> IF v.leaf = "kernel" THEN gk ELSE gb] :
        gk \in GradValues, gb \in GradValues}

----------------------------------------------------------------------------
(* The environment of the training fragments. *)

LearningRates == {1, 2}

Uninitialized == [k |-> "uninit", v |-> 0]

\* What global_variables_initializer gives a variable.
InitialValue == Fin(0)

\* The value my_model_final.ckpt holds for a variable.
CkptValue(v) == Fin(10 * v.layer + (IF v.leaf = "kernel" THEN 1 ELSE 2))

CheckpointOf(L) ==
    [n \in {OpName(v) : v \in Range(VarsFrom(1, L))} |->
        CkptValue(CHOOSE v \in Range(VarsFrom(1, L)) : OpName(v) = n)]

\* The model that was saved had hidden1..hidden4 and outputs, or every layer.
OriginalLayers ==
    {i \in LayerIds :
        LayerNames[i] \in {HiddenChars \o <<d>> : d \in {"1", "2", "3", "4"}}
                          \cup {OutputsChars}}

Checkpoints == {CheckpointOf(OriginalLayers), CheckpointOf(LayerIds)}

\* Any layers of LayerNames, or the network hidden1 .. hidden<n>.
Graphs == {L \in SUBSET LayerIds : L # {} /\ Cardinality(L) <= MaxLayers}

Networks == {1..n : n \in 1..MaxLayers}

NoOptimizer == [kind |-> "none", learning_rate |-> 0]

GradientDescentOptimizer(lr) ==
    [kind |-> "GradientDescentOptimizer", learning_rate |-> lr]

InitTraining(c, first, graphs) ==
    /\ cell = c
    /\ pc = first
    /\ layers \in graphs
    /\ disconnected \in {{}} \cup {{i} : i \in layers}
    /\ learning_rate \in LearningRates
    /\ reuse_vars = <<>>
    /\ reuse_vars_dict = <<>>
    /\ restore_saver = <<>>
    /\ train_vars = <<>>
    /\ computed = <<>>
    /\ applied = <<>>
    /\ restored = {}
    /\ runs = 0
    /\ saved = <<>>
    /\ error = ""
    /\ graph = <<>>
    /\ py = <<>>
    /\ fetched = [op |-> "none"]
    /\ beta1 = Zero /\ beta2 = Zero /\ m = Zero /\ s = Zero
    /\ T = 0 /\ gradient = Zero /\ gradients = <<>> /\ theta = <<>>

\* The gradient-clipping cell, in a session whose variables are initialized.
InitClip ==
    /\ InitTraining("clip", "L248", Networks)
    /\ nan_propagates \in BOOLEAN
    /\ ckpt = CheckpointOf(LayerIds)
    /\ optimizer = NoOptimizer
    /\ threshold = Fin(0)
    /\ grads_and_vars = <<>>
    /\ capped_gvs = <<>>
    /\ training_op = <<>>
    /\ value = [v \in Range(VarsFrom(1, layers)) |-> InitialValue]

Raise(exc) ==
    /\ pc' = "error"
    /\ error' = exc

----------------------------------------------------------------------------
(* Gradient clipping (lines 248-254). *)

\* threshold = 1.0
Line248 ==
    /\ pc = "L248"
    /\ threshold' = Fin(1)
    /\ pc' = "L250"
    /\ UNCHANGED <<graphVars, adamVars, cell, layers, disconnected, nan_propagates, learning_rate,
                   ckpt, optimizer, grads_and_vars, capped_gvs, training_op,
                   reuse_vars, reuse_vars_dict, restore_saver, train_vars,
                   value, computed, applied, restored, runs, saved, error>>

\* optimizer = tf.train.GradientDescentOptimizer(learning_rate)
Line250 ==
    /\ pc = "L250"
    /\ optimizer' = GradientDescentOptimizer(learning_rate)
    /\ pc' = "L251"
    /\ UNCHANGED <<graphVars, adamVars, cell, layers, disconnected, nan_propagates, learning_rate,
                   ckpt, threshold, grads_and_vars, capped_gvs, training_op,
                   reuse_vars, reuse_vars_dict, restore_saver, train_vars,
                   value, computed, applied, restored, runs, saved, error>>

\* grads_and_vars = optimizer.compute_gradients(loss)
Line251 ==
    /\ pc = "L251"
    /\ grads_and_vars' =
          ComputeGradients(Collection("trainable_variables", layers), disconnected)
    /\ pc' = "L252"
    /\ UNCHANGED <<graphVars, adamVars, cell, layers, disconnected, nan_propagates, learning_rate,
                   ckpt, threshold, optimizer, capped_gvs, training_op,
                   reuse_vars, reuse_vars_dict, restore_saver, train_vars,
                   value, computed, applied, restored, runs, saved, error>>

\* capped_gvs = [(tf.clip_by_value(grad, -threshold, threshold), var) ...];
\* tf.clip_by_value(None, ...) raises ValueError.
Line252 ==
    /\ pc = "L252"
    /\ IF \E i \in 1..Len(grads_and_vars) : grads_and_vars[i].grad = NoneGrad
       THEN /\ Raise("ValueError")
            /\ UNCHANGED capped_gvs
       ELSE /\ capped_gvs' = CappedGvs(grads_and_vars, threshold)
            /\ pc' = "L254"
            /\ UNCHANGED error
    /\ UNCHANGED <<graphVars, adamVars, cell, layers, disconnected, nan_propagates, learning_rate,
                   ckpt, threshold, optimizer, grads_and_vars, training_op,
                   reuse_vars, reuse_vars_dict, restore_saver, train_vars,
                   value, computed, applied, restored, runs, saved>>

\* training_op = optimizer.apply_gradients(capped_gvs)
Line254 ==
    /\ pc = "L254"
    /\ training_op' = ApplyGradients(capped_gvs)
    /\ pc' = "train"
    /\ UNCHANGED <<graphVars, adamVars, cell, layers, disconnected, nan_propagates, learning_rate,
                   ckpt, threshold, optimizer, grads_and_vars, capped_gvs,
                   reuse_vars, reuse_vars_dict, restore_saver, train_vars,
                   value, computed, applied, restored, runs, saved, error>>

\* sess.run(training_op, feed_dict={X: X_batch, y: y_batch})
RunTrainingOp ==
    /\ \E feed \in Feeds(layers) :
          LET handed == Handed(training_op, feed, nan_propagates)
          IN /\ computed' = [v \in DOMAIN handed |-> feed[v]]
             /\ applied' = handed
             /\ value' = GradientDescentStep(value, handed, optimizer.learning_rate)
    /\ runs' = runs + 1

\* A run of the training op built by line 254.
TrainClipped ==
    /\ pc = "train"
    /\ cell = "clip"
    /\ runs < MaxRuns
    /\ RunTrainingOp
    /\ UNCHANGED <<graphVars, adamVars, cell, pc, layers, disconnected, nan_propagates, learning_rate,
                   ckpt, threshold, optimizer, grads_and_vars, capped_gvs,
                   training_op, reuse_vars, reuse_vars_dict, restore_saver,
                   train_vars, restored, saved, error>>

NextClip ==
    \/ Line248
    \/ Line250
    \/ Line251
    \/ Line252
    \/ Line254
    \/ TrainClipped

SpecClip == InitClip /\ [][NextClip]_vars

----------------------------------------------------------------------------
(* Reusing a TensorFlow model (lines 293-312).  The cell uses the          *)
(* training_op of the cell before it: the clipped update of every          *)
(* variable.                                                               *)

InitReuse ==
    /\ InitTraining("reuse", "L293", Graphs)
    /\ disconnected = {}
    /\ nan_propagates \in BOOLEAN
    /\ ckpt \in Checkpoints
    /\ optimizer = GradientDescentOptimizer(learning_rate)
    /\ threshold = Fin(1)
    /\ grads_and_vars =
          ComputeGradients(Collection("trainable_variables", layers), {})
    /\ capped_gvs = CappedGvs(grads_and_vars, threshold)
    /\ training_op = ApplyGradients(capped_gvs)
    /\ value = [v \in Range(VarsFrom(1, layers)) |-> Uninitialized]

\* reuse_vars = tf.get_collection(GLOBAL_VARIABLES, scope="hidden[123]")
Line293 ==
    /\ pc = "L293"
    /\ reuse_vars' = GetCollection("variables", ScopeHidden123, layers)
    /\ pc' = "L294"
    /\ UNCHANGED <<graphVars, adamVars, cell, layers, disconnected, nan_propagates, learning_rate,
                   ckpt, threshold, optimizer, grads_and_vars, capped_gvs,
                   training_op, reuse_vars_dict, restore_saver, train_vars,
                   value, computed, applied, restored, runs, saved, error>>

\* dict([(var.op.name, var) for var in reuse_vars])
VarsDict(vs) ==
    [n \in {OpName(v) : v \in Range(vs)} |->
        CHOOSE v \in Range(vs) : OpName(v) = n]

Line294 ==
    /\ pc = "L294"
    /\ reuse_vars_dict' = VarsDict(reuse_vars)
    /\ pc' = "L295"
    /\ UNCHANGED <<graphVars, adamVars, cell, layers, disconnected, nan_propagates, learning_rate,
                   ckpt, threshold, optimizer, grads_and_vars, capped_gvs,
                   training_op, reuse_vars, restore_saver, train_vars,
                   value, computed, applied, restored, runs, saved, error>>

\* restore_saver = tf.train.Saver(reuse_vars_dict); a Saver of no variables
\* raises ValueError.  init and saver (lines 297-298) hold no state of their own.
Line295 ==
    /\ pc = "L295"
    /\ IF DOMAIN reuse_vars_dict = {}
       THEN /\ Raise("ValueError")
            /\ UNCHANGED restore_saver
       ELSE /\ restore_saver' = reuse_vars_dict
            /\ pc' = "L301"
            /\ UNCHANGED error
    /\ UNCHANGED <<graphVars, adamVars, cell, layers, disconnected, nan_propagates, learning_rate,
                   ckpt, threshold, optimizer, grads_and_vars, capped_gvs,
                   training_op, reuse_vars, reuse_vars_dict, train_vars,
                   value, computed, applied, restored, runs, saved>>

\* init.run()
Line301 ==
    /\ pc = "L301"
    /\ value' = [v \in DOMAIN value |-> InitialValue]
    /\ pc' = "L302"
    /\ UNCHANGED <<graphVars, adamVars, cell, layers, disconnected, nan_propagates, learning_rate,
                   ckpt, threshold, optimizer, grads_and_vars, capped_gvs,
                   training_op, reuse_vars, reuse_vars_dict, restore_saver,
                   train_vars, computed, applied, restored, runs, saved, error>>

\* saver.restore(sess, path): every variable of the saver is assigned the
\* value the checkpoint holds under its key.
Restore(vals, var_dict, checkpoint) ==
    [v \in DOMAIN vals |->
        IF \E n \in DOMAIN var_dict : var_dict[n] = v
        THEN checkpoint[CHOOSE n \in DOMAIN var_dict : var_dict[n] = v]
        ELSE vals[v]]

\* restore_saver.restore(sess, "./my_model_final.ckpt"); a key the checkpoint
\* does not hold raises NotFoundError.
Line302 ==
    /\ pc = "L302"
    /\ IF \E n \in DOMAIN restore_saver : n \notin DOMAIN ckpt
       THEN /\ Raise("NotFoundError")
            /\ UNCHANGED <<value, restored>>
       ELSE /\ value' = Restore(value, restore_saver, ckpt)
            /\ restored' = DOMAIN restore_saver
            /\ pc' = "L304"
            /\ UNCHANGED error
    /\ UNCHANGED <<graphVars, adamVars, cell, layers, disconnected, nan_propagates, learning_rate,
                   ckpt, threshold, optimizer, grads_and_vars, capped_gvs,
                   training_op, reuse_vars, reuse_vars_dict, restore_saver,
                   train_vars, computed, applied, runs, saved>>

\* The training step inside the two loops.
Line307 ==
    /\ pc = "L304"
    /\ runs < MaxRuns
    /\ RunTrainingOp
    /\ UNCHANGED <<graphVars, adamVars, cell, pc, layers, disconnected, nan_propagates, learning_rate,
                   ckpt, threshold, optimizer, grads_and_vars, capped_gvs,
                   training_op, reuse_vars, reuse_vars_dict, restore_saver,
                   train_vars, restored, saved, error>>

\* The loops end; save_path = saver.save(sess, "./my_new_model_final.ckpt")
Line312 ==
    /\ pc = "L304"
    /\ saved' = [n \in {OpName(v) : v \in DOMAIN value} |->
                    value[CHOOSE v \in DOMAIN value : OpName(v) = n]]
    /\ pc' = "done"
    /\ UNCHANGED <<graphVars, adamVars, cell, layers, disconnected, nan_propagates, learning_rate,
                   ckpt, threshold, optimizer, grads_and_vars, capped_gvs,
                   training_op, reuse_vars, reuse_vars_dict, restore_saver,
                   train_vars, value, computed, applied, restored, runs, error>>

NextReuse ==
    \/ Line293
    \/ Line294
    \/ Line295
    \/ Line301
    \/ Line302
    \/ Line307
    \/ Line312

SpecReuse == InitReuse /\ [][NextReuse]_vars

----------------------------------------------------------------------------
(* Freezing the lower layers (lines 389-390), with the optimizer of line 250 *)
(* and every variable initialized.                                         *)

InitFreeze ==
    /\ InitTraining("freeze", "L389", Graphs)
    /\ nan_propagates = TRUE
    /\ ckpt = CheckpointOf(LayerIds)
    /\ optimizer = GradientDescentOptimizer(learning_rate)
    /\ threshold = Fin(0)
    /\ grads_and_vars = <<>>
    /\ capped_gvs = <<>>
    /\ training_op = <<>>
    /\ value = [v \in Range(VarsFrom(1, layers)) |-> InitialValue]

\* train_vars = tf.get_collection(TRAINABLE_VARIABLES, scope="hidden[34]|outputs")
Line389 ==
    /\ pc = "L389"
    /\ train_vars' =
          GetCollection("trainable_variables", ScopeHidden34Outputs, layers)
    /\ pc' = "L390"
    /\ UNCHANGED <<graphVars, adamVars, cell, layers, disconnected, nan_propagates, learning_rate,
                   ckpt, threshold, optimizer, grads_and_vars, capped_gvs,
                   training_op, reuse_vars, reuse_vars_dict, restore_saver,
                   value, computed, applied, restored, runs, saved, error>>

\* optimizer.minimize(loss, var_list): compute_gradients over var_list, then
\* apply_gradients.
Minimize(var_list, disc) == ApplyGradients(ComputeGradients(var_list, disc))

\* training_op = optimizer.minimize(loss, var_list=train_vars); no variable to
\* optimize, or no gradient for any variable, raises ValueError.
Line390 ==
    /\ pc = "L390"
    /\ IF train_vars = <<>> \/ Minimize(train_vars, disconnected) = <<>>
       THEN /\ Raise("ValueError")
            /\ UNCHANGED training_op
       ELSE /\ training_op' = Minimize(train_vars, disconnected)
            /\ pc' = "train"
            /\ UNCHANGED error
    /\ UNCHANGED <<graphVars, adamVars, cell, layers, disconnected, nan_propagates, learning_rate,
                   ckpt, threshold, optimizer, grads_and_vars, capped_gvs,
                   reuse_vars, reuse_vars_dict, restore_saver, train_vars,
                   value, computed, applied, restored, runs, saved>>

\* A run of the training op built by line 390.
TrainFrozen ==
    /\ pc = "train"
    /\ cell = "freeze"
    /\ runs < MaxRuns
    /\ RunTrainingOp
    /\ UNCHANGED <<graphVars, adamVars, cell, pc, layers, disconnected, nan_propagates, learning_rate,
                   ckpt, threshold, optimizer, grads_and_vars, capped_gvs,
                   training_op, reuse_vars, reuse_vars_dict, restore_saver,
                   train_vars, restored, saved, error>>

NextFreeze ==
    \/ Line389
    \/ Line390
    \/ TrainFrozen

SpecFreeze == InitFreeze /\ [][NextFreeze]_vars

----------------------------------------------------------------------------
(* The graphs of the batch-normalization cells (lines 161-184, 202-214)    *)
(* and of the dropout cell (lines 762-772).                                *)

n_inputs == 28 * 28
n_hidden1 == 300
n_hidden2 == 100
n_outputs == 10

\* dropout_rate = 0.5  # == 1 - keep_prob
dropout_rate == Rat(1, 2)

\* momentum=0.9
bn_momentum == Rat(9, 10)

Node(name, op, input) ==
    [name |-> name, op |-> op, input |-> input, units |-> 0,
     activation |-> "None", rate |-> Rat(0, 1), training |-> "",
     momentum |-> Rat(0, 1)]

Used(name, g) == \E i \in 1..Len(g) : g[i].name = name

\* TensorFlow's unique names: base, base_1, base_2, ...
UniqueName(base, g) ==
    IF ~Used(base, g) THEN base
    ELSE LET k == CHOOSE j \in 1..Len(g) :
                    /\ ~Used(base \o "_" \o ToString(j), g)
                    /\ \A i \in 1..(j - 1) : Used(base \o "_" \o ToString(i), g)
         IN base \o "_" \o ToString(k)

\* tf.placeholder(..., name=name)
Placeholder(name, units) == [Node(name, "Placeholder", "") EXCEPT !.units = units]

\* tf.layers.dense(input, units, activation=activation, name=name)
Dense(input, units, activation, name) ==
    [Node(name, "dense", input) EXCEPT !.units = units, !.activation = activation]

\* tf.layers.batch_normalization(input, training=training, momentum=momentum)
BatchNormalization(input, training, momentum, g) ==
    [Node(UniqueName("batch_normalization", g), "batch_normalization", input)
        EXCEPT !.training = training, !.momentum = momentum]

\* tf.nn.elu(input)
Elu(input, g) == Node(UniqueName("Elu", g), "elu", input)

\* tf.layers.dropout(input, rate, training=training), inside name scope `scope`
Dropout(input, rate, training, scope, g) ==
    [Node(UniqueName(scope \o "dropout", g), "dropout", input)
        EXCEPT !.rate = rate, !.training = training]

Bind(names, id, node) ==
    [x \in DOMAIN names \cup {id} |-> IF x = id THEN node.name ELSE names[x]]

IdleTraining ==
    /\ layers = {}
    /\ disconnected = {}
    /\ nan_propagates = TRUE
    /\ learning_rate = 1
    /\ ckpt = <<>>
    /\ threshold = Fin(0)
    /\ optimizer = NoOptimizer
    /\ grads_and_vars = <<>>
    /\ capped_gvs = <<>>
    /\ training_op = <<>>
    /\ reuse_vars = <<>>
    /\ reuse_vars_dict = <<>>
    /\ restore_saver = <<>>
    /\ train_vars = <<>>
    /\ value = <<>>
    /\ computed = <<>>
    /\ applied = <<>>
    /\ restored = {}
    /\ runs = 0
    /\ saved = <<>>
    /\ error = ""

NotFetched == [op |-> "none"]

XPlaceholder == Placeholder("X", n_inputs)
TrainingPlaceholder == Placeholder("training", 0)

\* What an earlier cell may have left in the default graph.
StaleGraphs ==
    {<<>>, <<XPlaceholder>>, <<XPlaceholder, Dense("X", n_hidden1, "elu", "fully_connected")>>}

\* The first batch-normalization cell starts in whatever graph is there; the
\* second and the dropout cell use X (and training) of a graph built before.
InitGraph ==
    /\ IdleTraining
    /\ fetched = NotFetched
    /\ beta1 = Zero /\ beta2 = Zero /\ m = Zero /\ s = Zero
    /\ T = 0 /\ gradient = Zero /\ gradients = <<>> /\ theta = <<>>
    /\ \/ /\ cell = "bn"
          /\ pc = "L161"
          /\ graph \in StaleGraphs
          /\ py = <<>>
       \/ /\ cell = "bn_partial"
          /\ pc = "L204"
          /\ graph = <<XPlaceholder, TrainingPlaceholder>>
          /\ py = Bind(Bind(<<>>, "X", XPlaceholder), "training", TrainingPlaceholder)
       \/ /\ cell = "dropout"
          /\ pc = "L762"
          /\ graph = <<XPlaceholder>>
          /\ py = Bind(<<>>, "X", XPlaceholder)

\* One statement  id = <constructor>(...)  : the node joins the graph and the
\* Python name is bound to it.
Statement(at, id, node, next) ==
    /\ pc = at
    /\ graph' = Append(graph, node)
    /\ py' = Bind(py, id, node)
    /\ pc' = next
    /\ UNCHANGED <<adamVars, trainVarsButPc, fetched>>

\* reset_graph()
Line161 ==
    /\ cell = "bn"
    /\ pc = "L161"
    /\ graph' = <<>>
    /\ pc' = "L170"
    /\ UNCHANGED <<adamVars, trainVarsButPc, py, fetched>>

\* X = tf.placeholder(tf.float32, shape=(None, n_inputs), name="X")
Line170 == cell = "bn" /\ Statement("L170", "X", XPlaceholder, "L172")

\* training = tf.placeholder_with_default(False, shape=(), name='training')
Line172 == cell = "bn" /\ Statement("L172", "training", TrainingPlaceholder, "L174")

\* my_batch_norm_layer = partial(tf.layers.batch_normalization,
\*                               training=training, momentum=0.9)
my_batch_norm_layer(input, g) ==
    BatchNormalization(input, py["training"], bn_momentum, g)

Line204 ==
    /\ cell = "bn_partial"
    /\ pc = "L204"
    /\ pc' = "L174"
    /\ UNCHANGED <<adamVars, trainVarsButPc, graphVars>>

\* A hidden layer that applies ELU itself, before the normalization.
BnHidden1Activated == Dense(py["X"], n_hidden1, "elu", "hidden1")

\* hidden1 = tf.layers.dense(X, n_hidden1, name="hidden1")      (also line 207)
BnHidden1 == Dense(py["X"], n_hidden1, "None", "hidden1")
Line174 == cell \in {"bn", "bn_partial"} /\ Statement("L174", "hidden1", BnHidden1, "L175")

\* bn1 = tf.layers.batch_normalization(hidden1, training=training, momentum=0.9)
\* (line 208: bn1 = my_batch_norm_layer(hidden1))
Bn1 ==
    IF cell = "bn"
    THEN BatchNormalization(py["hidden1"], py["training"], bn_momentum, graph)
    ELSE my_batch_norm_layer(py["hidden1"], graph)
Line175 == cell \in {"bn", "bn_partial"} /\ Statement("L175", "bn1", Bn1, "L176")

\* bn1_act = tf.nn.elu(bn1)                                     (also line 209)
Bn1Act == Elu(py["bn1"], graph)
Line176 == cell \in {"bn", "bn_partial"} /\ Statement("L176", "bn1_act", Bn1Act, "L178")

\* hidden2 = tf.layers.dense(bn1_act, n_hidden2, name="hidden2") (also line 210)
BnHidden2 == Dense(py["bn1_act"], n_hidden2, "None", "hidden2")
Line178 == cell \in {"bn", "bn_partial"} /\ Statement("L178", "hidden2", BnHidden2, "L179")

\* bn2 = tf.layers.batch_normalization(hidden2, training=training, momentum=0.9)
\* (line 211: bn2 = my_batch_norm_layer(hidden2))
Bn2 ==
    IF cell = "bn"
    THEN BatchNormalization(py["hidden2"], py["training"], bn_momentum, graph)
    ELSE my_batch_norm_layer(py["hidden2"], graph)
Line179 == cell \in {"bn", "bn_partial"} /\ Statement("L179", "bn2", Bn2, "L180")

\* bn2_act = tf.nn.elu(bn2)                                     (also line 212)
Bn2Act == Elu(py["bn2"], graph)
Line180 == cell \in {"bn", "bn_partial"} /\ Statement("L180", "bn2_act", Bn2Act, "L182")

\* logits_before_bn = tf.layers.dense(bn2_act, n_outputs, name="outputs")
BnOutputs == Dense(py["bn2_act"], n_outputs, "None", "outputs")
Line182 ==
    cell \in {"bn", "bn_partial"}
        /\ Statement("L182", "logits_before_bn", BnOutputs, "L183")

\* logits = tf.layers.batch_normalization(logits_before_bn, training=training,
\*                                        momentum=0.9)
\* (line 214: logits = my_batch_norm_layer(logits_before_bn))
BnLogits ==
    IF cell = "bn"
    THEN BatchNormalization(py["logits_before_bn"], py["training"], bn_momentum, graph)
    ELSE my_batch_norm_layer(py["logits_before_bn"], graph)
Line183 == cell \in {"bn", "bn_partial"} /\ Statement("L183", "logits", BnLogits, "built")

\* training = tf.placeholder_with_default(False, shape=(), name='training')
Line762 == cell = "dropout" /\ Statement("L762", "training", TrainingPlaceholder, "L765")

\* X_drop = tf.layers.dropout(X, dropout_rate, training=training)
XDrop == Dropout(py["X"], dropout_rate, py["training"], "", graph)
Line765 == cell = "dropout" /\ Statement("L765", "X_drop", XDrop, "L768")

\* with tf.name_scope("dnn"):
\*     hidden1 = tf.layers.dense(X_drop, n_hidden1, activation=tf.nn.relu, name="hidden1")
DropHidden1 == Dense(py["X_drop"], n_hidden1, "relu", "hidden1")
Line768 == cell = "dropout" /\ Statement("L768", "hidden1", DropHidden1, "L769")

\*     hidden1_drop = tf.layers.dropout(hidden1, dropout_rate, training=training)
Hidden1Drop == Dropout(py["hidden1"], dropout_rate, py["training"], "dnn/", graph)
Line769 == cell = "dropout" /\ Statement("L769", "hidden1_drop", Hidden1Drop, "L770")

\* A second layer that reads hidden1 itself, not hidden1_drop.
DropHidden2Undropped == Dense(py["hidden1"], n_hidden2, "relu", "hidden2")

\*     hidden2 = tf.layers.dense(hidden1_drop, n_hidden2, activation=tf.nn.relu, name="hidden2")
DropHidden2 == Dense(py["hidden1_drop"], n_hidden2, "relu", "hidden2")
Line770 == cell = "dropout" /\ Statement("L770", "hidden2", DropHidden2, "L771")

\*     hidden2_drop = tf.layers.dropout(hidden2, dropout_rate, training=training)
Hidden2Drop == Dropout(py["hidden2"], dropout_rate, py["training"], "dnn/", graph)
Line771 == cell = "dropout" /\ Statement("L771", "hidden2_drop", Hidden2Drop, "L772")

\*     logits = tf.layers.dense(hidden2_drop, n_outputs, name="outputs")
DropLogits == Dense(py["hidden2_drop"], n_outputs, "None", "outputs")
Line772 == cell = "dropout" /\ Statement("L772", "logits", DropLogits, "built")

NodeNamed(name, g) == g[CHOOSE i \in 1..Len(g) : g[i].name = name]

DropoutNodes(g) == {g[i].name : i \in {j \in 1..Len(g) : g[j].op = "dropout"}}

RECURSIVE Evaluate(_, _, _, _)
\* The value of tensor `name` in a run that feeds `feed_training` to the
\* training placeholder: the operations applied to X, outermost first.
\* A dropout keeps the units of its mask when training and is the identity
\* otherwise; a batch normalization uses the batch's statistics when training
\* and the moving averages otherwise.
Evaluate(name, g, feed_training, masks) ==
    LET n == NodeNamed(name, g)
    IN CASE n.op = "Placeholder" -> [op |-> "Placeholder", name |-> n.name]
         [] n.op = "dense" ->
               [op |-> "dense", name |-> n.name, activation |-> n.activation,
                in |-> Evaluate(n.input, g, feed_training, masks)]
         [] n.op = "batch_normalization" ->
               [op |-> "batch_normalization",
                statistics |-> IF feed_training THEN "batch" ELSE "moving",
                in |-> Evaluate(n.input, g, feed_training, masks)]
         [] n.op = "elu" ->
               [op |-> "elu", in |-> Evaluate(n.input, g, feed_training, masks)]
         [] n.op = "dropout" ->
               IF feed_training
               THEN [op |-> "dropout", kept |-> masks[n.name], rate |-> n.rate,
                     in |-> Evaluate(n.input, g, feed_training, masks)]
               ELSE Evaluate(n.input, g, feed_training, masks)

\* A run of logits on the built graph, training fed True or left False, each
\* dropout drawing the units it keeps.
RunLogits ==
    /\ cell \in {"bn", "bn_partial", "dropout"}
    /\ pc = "built"
    /\ \E feed_training \in BOOLEAN :
          \E masks \in [DropoutNodes(graph) -> SUBSET (1..Width)] :
              /\ ~feed_training => \A d \in DOMAIN masks : masks[d] = 1..Width
              /\ fetched' = Evaluate(py["logits"], graph, feed_training, masks)
    /\ UNCHANGED <<adamVars, trainVarsButPc, pc, graph, py>>

NextGraph ==
    \/ Line161
    \/ Line170
    \/ Line172
    \/ Line204
    \/ Line174
    \/ Line175
    \/ Line176
    \/ Line178
    \/ Line179
    \/ Line180
    \/ Line182
    \/ Line183
    \/ Line762
    \/ Line765
    \/ Line768
    \/ Line769
    \/ Line770
    \/ Line771
    \/ Line772
    \/ RunLogits

SpecGraph == InitGraph /\ [][NextGraph]_vars

----------------------------------------------------------------------------
(* The Adam update as the notebook writes it (lines 604-608, 615): five    *)
(* assignments to m, s and theta, run in order once per iteration.         *)

Betas == {Rat(1, 2), Rat(9, 10)}

AdamGradients == {Rat(g, 1) : g \in {-1, 0, 1, 2}}

InitAdam ==
    /\ IdleTraining
    /\ cell = "adam"
    /\ pc = "A1"
    /\ graph = <<>>
    /\ py = <<>>
    /\ fetched = NotFetched
    /\ beta1 \in Betas
    /\ beta2 \in Betas
    /\ m = Zero
    /\ s = Zero
    /\ T = 1
    /\ gradient = Zero
    /\ gradients = <<>>
    /\ theta = <<>>

\* m <- beta1 m + (1 - beta1) grad
DecayStep(beta, avg, x) == RAdd(RMul(beta, avg), RMul(RSub(One, beta), x))

\* m <- m / (1 - beta1^T)
BiasCorrect(beta, avg, t) == RDiv(avg, RSub(One, RPow(beta, t)))

\* 1.  m <- beta1 m + (1 - beta1) grad J(theta)
AdamStep1 ==
    /\ pc = "A1"
    /\ T <= MaxIterations
    /\ \E g \in AdamGradients :
          /\ gradient' = g
          /\ gradients' = Append(gradients, g)
          /\ m' = DecayStep(beta1, m, g)
    /\ pc' = "A2"
    /\ UNCHANGED <<trainVarsButPc, graphVars, beta1, beta2, s, T, theta>>

\* 2.  s <- beta2 s + (1 - beta2) grad J(theta) (x) grad J(theta)
AdamStep2 ==
    /\ pc = "A2"
    /\ s' = DecayStep(beta2, s, RMul(gradient, gradient))
    /\ pc' = "A3"
    /\ UNCHANGED <<trainVarsButPc, graphVars, beta1, beta2, m, T, gradient,
                   gradients, theta>>

\* 3.  m <- m / (1 - beta1^T)
AdamStep3 ==
    /\ pc = "A3"
    /\ m' = BiasCorrect(beta1, m, T)
    /\ pc' = "A4"
    /\ UNCHANGED <<trainVarsButPc, graphVars, beta1, beta2, s, T, gradient,
                   gradients, theta>>

\* 4.  s <- s / (1 - beta2^T)
AdamStep4 ==
    /\ pc = "A4"
    /\ s' = BiasCorrect(beta2, s, T)
    /\ pc' = "A5"
    /\ UNCHANGED <<trainVarsButPc, graphVars, beta1, beta2, m, T, gradient,
                   gradients, theta>>

\* 5.  theta <- theta - eta m (/) sqrt(s + epsilon); theta is kept as the
\* steps subtracted so far, each given by the m and the s it used.  The next
\* iteration has the next number.
AdamStep5 ==
    /\ pc = "A5"
    /\ theta' = Append(theta, [m |-> m, s |-> s])
    /\ T' = T + 1
    /\ pc' = "A1"
    /\ UNCHANGED <<trainVarsButPc, graphVars, beta1, beta2, m, s, gradient,
                   gradients>>

NextAdam ==
    \/ AdamStep1
    \/ AdamStep2
    \/ AdamStep3
    \/ AdamStep4
    \/ AdamStep5

SpecAdam == InitAdam /\ [][NextAdam]_vars

----------------------------------------------------------------------------
(* Claims about gradient clipping. *)

InInterval(x, lo, hi) ==
    /\ x.k = "fin"
    /\ lo.k = "fin" /\ hi.k = "fin"
    /\ lo.v <= x.v /\ x.v <= hi.v

\* Every pair of training_op is the clip, between -threshold and threshold,
\* of the gradient computed for the pair's own variable.
ComputeClipApply ==
    \A i \in 1..Len(training_op) :
        /\ training_op[i].grad.op = "clip_by_value"
        /\ training_op[i].grad.t = GradientOf(training_op[i].var)
        /\ training_op[i].grad.clip_value_min = FNeg(threshold)
        /\ training_op[i].grad.clip_value_max = threshold

\* C1 as stated: whatever the gradient values, every component handed to the
\* update lies in [-threshold, threshold], and every update goes compute,
\* clip, apply.
C1_AnyGradientEndsInInterval ==
    cell = "clip" =>
        /\ \A v \in DOMAIN applied :
              InInterval(applied[v], FNeg(threshold), threshold)
        /\ ComputeClipApply

\* C1, amended: for every computed gradient component other than NaN
\* (finite or infinite), the component handed to the update lies in
\* [-threshold, threshold]; every pair of training_op is the clip of the
\* gradient computed for its variable, every variable's update goes through
\* it, and so a variable that is still finite after k runs has moved at most
\* k * learning_rate * threshold.
C1_NonNaNGradientEndsInInterval ==
    cell = "clip" =>
        /\ \A v \in DOMAIN applied :
              ~IsNaN(computed[v]) =>
                  InInterval(applied[v], FNeg(threshold), threshold)
        /\ ComputeClipApply
        /\ runs = 0 => \A v \in DOMAIN value : value[v] = InitialValue
        /\ runs > 0 => DOMAIN applied = DOMAIN value
        /\ \A v \in DOMAIN value :
              value[v].k = "fin" =>
                  Abs(value[v].v - InitialValue.v) <= runs * learning_rate * threshold.v

\* A run clipped a finite gradient above the threshold and an infinite one
\* below it.
C1_Witness ==
    /\ cell = "clip"
    /\ runs > 0
    /\ \E v \in DOMAIN applied :
          /\ computed[v].k = "fin" /\ computed[v].v > threshold.v
          /\ applied[v] = threshold
    /\ \E v \in DOMAIN applied :
          /\ computed[v] = Inf(-1)
          /\ applied[v] = FNeg(threshold)

\* C2: a gradient component already within [-threshold, threshold] is handed
\* to the update unchanged, and capped_gvs has the length, the order and the
\* variables of grads_and_vars, each clip reading the gradient of its own pair.
C2_InRangeUnchangedSamePairs ==
    cell = "clip" =>
        /\ \A v \in DOMAIN applied :
              InInterval(computed[v], FNeg(threshold), threshold) =>
                  applied[v] = computed[v]
        /\ pc \in {"L254", "train"} =>
              /\ Len(capped_gvs) = Len(grads_and_vars)
              /\ \A i \in 1..Len(capped_gvs) :
                    /\ capped_gvs[i].var = grads_and_vars[i].var
                    /\ capped_gvs[i].grad.t = grads_and_vars[i].grad
                    /\ grads_and_vars[i].grad = GradientOf(capped_gvs[i].var)

\* A run handed one in-range nonzero gradient through unchanged while it
\* clipped another variable's gradient.
C2_Witness ==
    /\ cell = "clip"
    /\ runs > 0
    /\ Len(capped_gvs) > 1
    /\ \E v, w \in DOMAIN applied :
          /\ InInterval(computed[v], FNeg(threshold), threshold)
          /\ computed[v] # Fin(0)
          /\ applied[v] = computed[v]
          /\ applied[w] # computed[w]

----------------------------------------------------------------------------
(* Claims about reusing and freezing layers. *)

LayersNamed(names) == {i \in LayerIds : LayerNames[i] \in names}

VarsOfLayers(ids) == {v \in DOMAIN value : v.layer \in ids}

Layers123 ==
    LayersNamed({HiddenChars \o <<"1">>, HiddenChars \o <<"2">>,
                 HiddenChars \o <<"3">>})

Layers34Outputs ==
    LayersNamed({HiddenChars \o <<"3">>, HiddenChars \o <<"4">>, OutputsChars})

\* C3 as stated: after any number of runs of the training op of line 390,
\* every variable outside hidden3, hidden4 and outputs has the value it had
\* before training.
C3_OnlyHidden34OutputsChange ==
    cell = "freeze" =>
        \A v \in DOMAIN value :
            v.layer \notin Layers34Outputs => value[v] = InitialValue

\* C4 as stated: whatever layers the graph holds, the variables selected by
\* scope "hidden[123]" are exactly those of hidden1, hidden2 and hidden3, and
\* restore reads no other variable from the checkpoint.
C4_RestoresExactlyLayers123 ==
    cell = "reuse" =>
        /\ pc \notin {"L293"} => Range(reuse_vars) = VarsOfLayers(Layers123)
        /\ restored \subseteq {OpName(v) : v \in VarsOfLayers(Layers123)}

----------------------------------------------------------------------------
(* Claims about the batch-normalization and dropout graphs. *)

NodesOf(op) == {graph[i] : i \in {j \in 1..Len(graph) : graph[j].op = op}}

Consumers(name) == {graph[i] : i \in {j \in 1..Len(graph) : graph[j].input = name}}

RECURSIVE OpsOf(_)
\* The operations of an evaluated tensor, outermost first.
OpsOf(term) ==
    IF term.op = "Placeholder" THEN <<"Placeholder">>
    ELSE <<term.op>> \o OpsOf(term.in)

\* C5: in the constructed graph every hidden layer is dense, with no
\* activation of its own, then batch normalization, then ELU; each following
\* dense layer reads the ELU output of the layer before; the output layer is
\* dense then batch normalization, with nothing after it; and a run of logits
\* applies the operations in that order.
C5_BatchNormBeforeActivation ==
    (cell \in {"bn", "bn_partial"} /\ pc = "built") =>
        /\ {d.name : d \in NodesOf("dense")} = {"hidden1", "hidden2", "outputs"}
        /\ \A d \in NodesOf("dense") :
              /\ d.activation = "None"
              /\ NodeNamed(d.input, graph).op =
                    (IF d.name = "hidden1" THEN "Placeholder" ELSE "elu")
              /\ \E b \in NodesOf("batch_normalization") :
                    /\ Consumers(d.name) = {b}
                    /\ IF d.name = "outputs"
                       THEN Consumers(b.name) = {} /\ py["logits"] = b.name
                       ELSE \E a \in NodesOf("elu") :
                               /\ Consumers(b.name) = {a}
                               /\ \E n \in NodesOf("dense") : Consumers(a.name) = {n}
        /\ fetched # NotFetched =>
              OpsOf(fetched) =
                  <<"batch_normalization", "dense", "elu",
                    "batch_normalization", "dense", "elu",
                    "batch_normalization", "dense", "Placeholder">>

\* The first batch-normalization cell is built and a training run of logits
\* normalized with the batch's statistics.
C5_Witness ==
    /\ cell = "bn"
    /\ pc = "built"
    /\ fetched.op = "batch_normalization"
    /\ fetched.statistics = "batch"
    /\ fetched.in.in.op = "elu"

\* C6: in the constructed graph a dropout of rate 0.5 is applied to X and to
\* the output of hidden1 and of hidden2, every dense layer reads a dropout's
\* output, and logits is the output layer itself, which no dropout reads; a
\* training run of logits drops units before each dense layer and not after
\* the last.
C6_DropoutOnInputsNotOnOutput ==
    (cell = "dropout" /\ pc = "built") =>
        /\ {d.name : d \in NodesOf("dense")} = {"hidden1", "hidden2", "outputs"}
        /\ {d.input : d \in NodesOf("dropout")} = {"X", "hidden1", "hidden2"}
        /\ Cardinality(NodesOf("dropout")) = 3
        /\ \A d \in NodesOf("dropout") :
              d.rate = Rat(1, 2) /\ d.training = "training"
        /\ \A d \in NodesOf("dense") :
              /\ NodeNamed(d.input, graph).op = "dropout"
              /\ NodeNamed(d.input, graph).input =
                    (CASE d.name = "hidden1" -> "X"
                       [] d.name = "hidden2" -> "hidden1"
                       [] OTHER -> "hidden2")
        /\ py["logits"] = "outputs"
        /\ Consumers("outputs") = {}
        /\ fetched # NotFetched =>
              OpsOf(fetched) \in
                  { <<"dense", "dropout", "dense", "dropout", "dense", "dropout",
                      "Placeholder">>,
                    <<"dense", "dense", "dense", "Placeholder">> }

\* The dropout cell is built and a training run dropped a unit of hidden2 and
\* kept every input.
C6_Witness ==
    /\ cell = "dropout"
    /\ pc = "built"
    /\ fetched.op = "dense"
    /\ fetched.name = "outputs"
    /\ fetched.in.op = "dropout"
    /\ fetched.in.kept = {1}
    /\ fetched.in.in.in.in.in.kept = 1..Width

----------------------------------------------------------------------------
(* Claims about the Adam update. *)

RECURSIVE DecayingAverage(_, _)
\* The decaying average of xs with rate beta, started at 0.
DecayingAverage(beta, xs) ==
    IF xs = <<>> THEN Zero
    ELSE RAdd(RMul(beta, DecayingAverage(beta, SubSeq(xs, 1, Len(xs) - 1))),
              RMul(RSub(One, beta), xs[Len(xs)]))

Squares(xs) == [i \in 1..Len(xs) |-> RMul(xs[i], xs[i])]

\* C7 as stated: at every iteration T >= 1 and for every gradient sequence,
\* the m that step 5 uses is the decaying average of the gradients so far
\* divided by 1 - beta1^T, and the s it uses is the decaying average of their
\* squares divided by 1 - beta2^T.
C7_WrittenAdamIsStandardAdam ==
    (cell = "adam" /\ pc = "A5") =>
        /\ T = Len(gradients)
        /\ m = RDiv(DecayingAverage(beta1, gradients), RSub(One, RPow(beta1, T)))
        /\ s = RDiv(DecayingAverage(beta2, Squares(gradients)),
                    RSub(One, RPow(beta2, T)))

====
